---- MODULE Spec2Model ----
(***************************************************************************)
(* A state-machine model of the HogQL name and type resolver               *)
(* (posthog/hogql/resolver.py).  The recursive tree walk of                *)
(* Resolver.visit is unfolded into an explicit control stack: one frame    *)
(* per active visit_* call, one action per handler segment between two     *)
(* recursive visits.  Python dicts are ordered lists of key/value pairs,   *)
(* Python None is the record None (nodes) or NoType (types).               *)
(***************************************************************************)
EXTENDS Integers, Sequences, FiniteSets, TLC

VARIABLES
    query,              \* the node handed to resolve_types
    dialect,            \* "clickhouse" (strict) or "hogql" (lenient)
    max_view_depth,     \* context.max_view_depth
    preseed,            \* number of scopes handed in through `scopes`
    scopes,             \* Resolver.scopes
    cte_counter,        \* Resolver.cte_counter
    current_view_depth, \* Resolver.current_view_depth
    stack,              \* the Python call stack of visit_* activations
    ret,                \* value returned by the activation that just ended
    status,             \* "running", "done" or the exception class raised
    message,            \* message of the exception raised ("" when none)
    errors,             \* context.add_error diagnostics
    notices,            \* number of context.add_notice calls
    expansions,         \* history: CTE expansions started so far
    next_sid,           \* history: identity handed to the next scope pushed
    mutated             \* nodes of the input AST that were written to

vars == <<query, dialect, max_view_depth, preseed, scopes, cte_counter,
          current_view_depth, stack, ret, status, message, errors, notices,
          expansions, next_sid, mutated>>

-----------------------------------------------------------------------------
(* Bounds of the model.                                                    *)

MaxViewDepth == 2    \* context.max_view_depth ranges over 1..MaxViewDepth
MaxSelect == 2       \* longest SELECT list of the generated queries
MaxJoins == 2        \* longest FROM/JOIN chain of the generated queries
FanDepth == 5        \* length of the chain of column CTEs that each use the next twice

(* Program constant: the CTE expansion limit of Resolver.visit.            *)
CteLimit == 50

-----------------------------------------------------------------------------
(* A local variable: the value is computed once and named, as Python's     *)
(* assignment does.                                                        *)
Bind(value, Use(_)) == CHOOSE result \in {Use(local) : local \in {value}} : TRUE

-----------------------------------------------------------------------------
(* Ordered dicts.                                                          *)

Keys(d) == {d[i].k : i \in 1..Len(d)}
Has(d, k) == k \in Keys(d)
Get(d, k) == d[CHOOSE i \in 1..Len(d) : d[i].k = k].v
Put(d, k, v) ==
    IF Has(d, k)
    THEN [i \in 1..Len(d) |-> IF d[i].k = k THEN [k |-> k, v |-> v] ELSE d[i]]
    ELSE Append(d, [k |-> k, v |-> v])
IsKeyNot(e, k) == e.k # k
Del(d, k) == SelectSeq(d, LAMBDA e : IsKeyNot(e, k))
KeySeq(d) == [i \in 1..Len(d) |-> d[i].k]

RECURSIVE Concat(_)
Concat(ss) == IF Len(ss) = 0 THEN <<>> ELSE Head(ss) \o Concat(Tail(ss))

RECURSIVE JoinStr(_)
JoinStr(chain) ==
    IF Len(chain) = 1 THEN Head(chain)
    ELSE Head(chain) \o "__" \o JoinStr(Tail(chain))

-----------------------------------------------------------------------------
(* AST nodes.                                                              *)

None == [kind |-> "None"]
NoType == [t |-> "None"]

Constant(value) == [kind |-> "Constant", value |-> value, type |-> NoType]
\* ast.Field(chain=...): no source offsets (start = end = None, here -1)
Field(chain) ==
    [kind |-> "Field", chain |-> chain, start |-> -1, end |-> -1,
     type |-> NoType]
\* a Field as the parser makes it, with its source offsets
ParsedField(chain, start) ==
    [Field(chain) EXCEPT !.start = start, !.end = start + Len(chain)]
Alias(alias, expr, hidden) ==
    [kind |-> "Alias", alias |-> alias, expr |-> expr, hidden |-> hidden,
     type |-> NoType]
And(exprs) == [kind |-> "And", exprs |-> exprs, type |-> NoType]
ArrayAccess(array, property) ==
    [kind |-> "ArrayAccess", array |-> array, property |-> property,
     type |-> NoType]
Lambda(args, expr) ==
    [kind |-> "Lambda", args |-> args, expr |-> expr, type |-> NoType]
CTE(name, expr, cte_type) ==
    [kind |-> "CTE", name |-> name, expr |-> expr, cte_type |-> cte_type]
JoinConstraint(expr, constraint_type) ==
    [kind |-> "JoinConstraint", expr |-> expr,
     constraint_type |-> constraint_type, type |-> NoType]
JoinExpr(table, alias, constraint, next_join) ==
    [kind |-> "JoinExpr", table |-> table, alias |-> alias,
     constraint |-> constraint, next_join |-> next_join,
     join_type |-> IF constraint = None THEN "" ELSE "JOIN",
     sample |-> None, type |-> NoType]
SelectQuery(ctes, select, select_from, array_join_list, where) ==
    [kind |-> "SelectQuery", ctes |-> ctes, select |-> select,
     select_from |-> select_from, array_join_list |-> array_join_list,
     where |-> where, prewhere |-> None, having |-> None, limit |-> None,
     offset |-> None, view_name |-> "", type |-> NoType]
SelectUnionQuery(select_queries) ==
    [kind |-> "SelectUnionQuery", select_queries |-> select_queries,
     type |-> NoType]

-----------------------------------------------------------------------------
(* Types.                                                                  *)

UnknownType == [t |-> "Unknown"]
BooleanType == [t |-> "Boolean"]
IntegerType == [t |-> "Integer"]
FloatType == [t |-> "Float"]
StringType == [t |-> "String"]
TableType(table) == [t |-> "Table", table |-> table]
LazyTableType(table) == [t |-> "LazyTable", table |-> table]
TableAliasType(alias, table_type) ==
    [t |-> "TableAlias", alias |-> alias, table_type |-> table_type]
SelectQueryType(sid, ctes, aliases, parent) ==
    [t |-> "SelectQuery", sid |-> sid, ctes |-> ctes, aliases |-> aliases,
     columns |-> <<>>, tables |-> <<>>, anonymous_tables |-> <<>>,
     parent |-> parent]
SelectUnionQueryType(types) == [t |-> "SelectUnionQuery", types |-> types]
SelectQueryAliasType(alias, select_query_type) ==
    [t |-> "SelectQueryAlias", alias |-> alias,
     select_query_type |-> select_query_type]
SelectViewType(alias, view_name, select_query_type) ==
    [t |-> "SelectView", alias |-> alias, view_name |-> view_name,
     select_query_type |-> select_query_type]
FieldType(name, table_type) ==
    [t |-> "Field", name |-> name, table_type |-> table_type]
PropertyType(chain, field_type) ==
    [t |-> "Property", chain |-> chain, field_type |-> field_type]
ExpressionFieldType(name, expr, table_type) ==
    [t |-> "ExpressionField", name |-> name, expr |-> expr,
     table_type |-> table_type]
FieldAliasType(alias, type) ==
    [t |-> "FieldAlias", alias |-> alias, type |-> type]
AsteriskType(table_type) == [t |-> "Asterisk", table_type |-> table_type]
LambdaArgumentType(name) == [t |-> "LambdaArgument", name |-> name]
UnresolvedFieldType(name) == [t |-> "UnresolvedField", name |-> name]

\* Python's `x or y` on an optional type
TypeOr(a, b) == IF a = NoType THEN b ELSE a

(* resolve_constant_data_type: the literal is carried as the name of its   *)
(* Python class; bool is tested before int.                                *)
resolve_constant_data_type(value) ==
    CASE value = "NoneType" -> UnknownType
      [] value = "bool" -> BooleanType
      [] value = "int" -> IntegerType
      [] value = "float" -> FloatType
      [] value = "str" -> StringType
      [] OTHER -> NoType

-----------------------------------------------------------------------------
(* The schema catalog (context.database): the tables of the specification's *)
(* end-to-end scenarios, plus two more saved views.  A descriptor carries   *)
(* its kind, its ordered columns, the JSON-typed ones, its expression       *)
(* fields and, for a saved view, its stored query.                          *)

ViewV1 == SelectQuery(<<>>, <<Field(<<"event">>)>>,
                      JoinExpr(Field(<<"events">>), "", None, None), <<>>, None)
ViewV2 == SelectQuery(<<>>, <<Field(<<"event">>)>>,
                      JoinExpr(Field(<<"v1">>), "", None, None), <<>>, None)
ViewV3 == SelectQuery(<<>>, <<Field(<<"id">>)>>,
                      JoinExpr(Field(<<"events">>), "", None, None), <<>>, None)

TableNames == {"events", "s3_table", "v1", "v2", "v3"}

get_table(name) ==
    CASE name = "events" ->
            [kind |-> "events", fields |-> <<"id", "event", "properties">>,
             json |-> {"properties"},
             expression_fields |-> <<[k |-> "ef", v |-> Field(<<"event">>)]>>,
             function_call |-> FALSE, query |-> None]
      [] name = "s3_table" ->
            [kind |-> "s3", fields |-> <<"id">>, json |-> {},
             expression_fields |-> <<>>, function_call |-> FALSE,
             query |-> None]
      [] name = "v1" ->
            [kind |-> "saved_query", fields |-> <<"event">>, json |-> {},
             expression_fields |-> <<>>, function_call |-> FALSE,
             query |-> ViewV1]
      [] name = "v2" ->
            [kind |-> "saved_query", fields |-> <<"event">>, json |-> {},
             expression_fields |-> <<>>, function_call |-> FALSE,
             query |-> ViewV2]
      [] name = "v3" ->
            [kind |-> "saved_query", fields |-> <<"id">>, json |-> {},
             expression_fields |-> <<>>, function_call |-> FALSE,
             query |-> ViewV3]
      [] OTHER -> None

SeqToSet(s) == {s[i] : i \in 1..Len(s)}

\* Table.get_asterisk(): the ordered plain columns
get_asterisk(table) == get_table(table).fields

\* parse_select(str(database_table.query)): the stored query, parsed afresh
parse_select(database_table) == database_table.query

\* clone_expr(expr): a deep copy that keeps the types (clear_types=False)
clone_expr(expr) == expr

-----------------------------------------------------------------------------
(* Type navigation: Type.has_child / Type.get_child.                       *)

table_has(descriptor, name) ==
    \/ name \in SeqToSet(descriptor.fields)
    \/ Has(descriptor.expression_fields, name)

RECURSIVE has_child(_, _)
has_child(ty, name) ==
    CASE ty.t \in {"Table", "LazyTable"} ->
            Bind(get_table(ty.table), LAMBDA table : table_has(table, name))
      [] ty.t = "TableAlias" -> has_child(ty.table_type, name)
      [] ty.t = "SelectQuery" -> Has(ty.columns, name)
      [] ty.t = "SelectUnionQuery" ->
            Len(ty.types) > 0 /\ has_child(ty.types[1], name)
      [] ty.t \in {"SelectQueryAlias", "SelectView"} ->
            has_child(ty.select_query_type, name)
      [] OTHER -> FALSE

\* the catalog table a table type stands for ("" when it is a sub-query)
RECURSIVE resolve_database_table(_)
resolve_database_table(ty) ==
    CASE ty.t \in {"Table", "LazyTable"} -> ty.table
      [] ty.t = "TableAlias" -> resolve_database_table(ty.table_type)
      [] OTHER -> ""

\* FieldType.resolve_database_field is a StringJSONDatabaseField
RECURSIVE is_json_field(_)
json_column(name, tt, table) ==
    CASE table # "" -> name \in get_table(table).json
      [] tt.t = "SelectQuery" ->
            Has(tt.columns, name) /\ is_json_field(Get(tt.columns, name))
      [] tt.t \in {"SelectQueryAlias", "SelectView"} ->
            is_json_field(FieldType(name, tt.select_query_type))
      [] tt.t = "SelectUnionQuery" ->
            Len(tt.types) > 0 /\ is_json_field(FieldType(name, tt.types[1]))
      [] OTHER -> FALSE
is_json_field(ty) ==
    CASE ty.t = "Field" ->
            Bind(resolve_database_table(ty.table_type),
                 LAMBDA table : json_column(ty.name, ty.table_type, table))
      [] ty.t = "FieldAlias" -> is_json_field(ty.type)
      [] OTHER -> FALSE

catalog_child(ty, name, expression_fields) ==
    IF Has(expression_fields, name)
    THEN ExpressionFieldType(name, Get(expression_fields, name), ty)
    ELSE FieldType(name, ty)

table_child(ty, name, table) ==
    IF name = "*" THEN AsteriskType(ty)
    ELSE IF ~has_child(ty, name) THEN NoType
    ELSE IF table = "" THEN FieldType(name, ty)
    ELSE catalog_child(ty, name, get_table(table).expression_fields)

RECURSIVE get_child(_, _)
get_child(ty, name) ==
    CASE ty.t \in {"Table", "LazyTable", "TableAlias", "SelectQuery",
                   "SelectUnionQuery", "SelectQueryAlias", "SelectView"} ->
            Bind(resolve_database_table(ty),
                 LAMBDA table : table_child(ty, name, table))
      [] ty.t = "FieldAlias" -> get_child(ty.type, name)
      [] ty.t = "Field" ->
            IF is_json_field(ty) THEN PropertyType(<<name>>, ty) ELSE NoType
      [] ty.t = "Property" -> PropertyType(Append(ty.chain, name), ty.field_type)
      [] OTHER -> NoType

-----------------------------------------------------------------------------
(* resolver_utils: name lookups on the scope stack.                        *)

Ambiguous == [t |-> "Ambiguous"]

Values(d) == [i \in 1..Len(d) |-> d[i].v]

\* named_tables + anonymous_tables that have the field
tables_with_field(scope, name) ==
    SelectSeq(Values(scope.tables) \o scope.anonymous_tables,
              LAMBDA ty : has_child(ty, name))

\* lookup_field_by_name(scope, name, context); `sc` is the scope stack the
\* parent pointer of a lambda scope indexes into
RECURSIVE lookup_field_by_name(_, _, _)
lookup_in_tables(sc, scope, name, found) ==
    IF Len(found) > 1 THEN Ambiguous
    ELSE IF Len(found) = 1 THEN get_child(found[1], name)
    ELSE IF scope.parent # 0 THEN lookup_field_by_name(sc, scope.parent, name)
    ELSE NoType
lookup_in_scope(sc, scope, name) ==
    IF Has(scope.aliases, name) THEN Get(scope.aliases, name)
    ELSE Bind(tables_with_field(scope, name),
              LAMBDA found : lookup_in_tables(sc, scope, name, found))
lookup_field_by_name(sc, i, name) ==
    Bind(sc[i], LAMBDA scope : lookup_in_scope(sc, scope, name))

\* lookup_cte_by_name(scopes, name): top of the stack first
RECURSIVE lookup_cte_from(_, _, _)
lookup_cte_from(sc, i, name) ==
    IF i = 0 THEN None
    ELSE IF Has(sc[i].ctes, name) THEN Get(sc[i].ctes, name)
    ELSE lookup_cte_from(sc, i - 1, name)

lookup_cte_by_name(sc, name) == lookup_cte_from(sc, Len(sc), name)

-----------------------------------------------------------------------------
(* AliasCollector: the aliases of an expression, outermost first; it does  *)
(* not look inside an Alias.                                               *)

RECURSIVE AliasCollector(_)
AliasCollector(node) ==
    CASE node.kind = "Alias" -> <<node.alias>>
      [] node.kind = "And" ->
            Concat([i \in 1..Len(node.exprs) |-> AliasCollector(node.exprs[i])])
      [] node.kind = "Lambda" -> AliasCollector(node.expr)
      [] OTHER -> <<>>

(* Resolver._asterisk_columns: the bare identifiers an asterisk stands for; *)
(* ok is FALSE when the owner cannot be expanded (QueryError).              *)
RECURSIVE AsteriskSelect(_)
AsteriskSelect(ty) ==
    CASE ty.t \in {"SelectQueryAlias", "SelectView"} ->
            AsteriskSelect(ty.select_query_type)
      [] ty.t = "SelectUnionQuery" ->
            IF Len(ty.types) > 0 THEN ty.types[1] ELSE NoType
      [] OTHER -> ty

FieldsOf(keys) == [ok |-> TRUE, columns |-> [i \in 1..Len(keys) |-> Field(<<keys[i]>>)]]
ColumnsOf(select) ==
    IF select.t = "SelectQuery" THEN FieldsOf(KeySeq(select.columns))
    ELSE [ok |-> FALSE, columns |-> <<>>]
_asterisk_columns(asterisk) ==
    CASE asterisk.table_type.t \in {"Table", "LazyTable", "TableAlias"} ->
            FieldsOf(get_asterisk(resolve_database_table(asterisk.table_type)))
      [] asterisk.table_type.t \in {"SelectUnionQuery", "SelectQuery",
                                    "SelectQueryAlias", "SelectView"} ->
            ColumnsOf(AsteriskSelect(asterisk.table_type))
      [] OTHER -> [ok |-> FALSE, columns |-> <<>>]

-----------------------------------------------------------------------------
(* The control stack.  The top frame is either a pending call of           *)
(* Resolver.visit (fn = "visit") or the activation of a handler whose      *)
(* callee has just returned its value in `ret`.                            *)

Frame(fn, pc, node) ==
    [fn |-> fn, pc |-> pc, node |-> node, new |-> None, i |-> 0, acc |-> <<>>,
     aux |-> <<>>, cols |-> <<>>, j |-> 0, sid |-> 0,
     save |-> [cte_counter |-> 0, current_view_depth |-> 0], nres |-> 0,
     bypass |-> FALSE, input |-> FALSE]
Call(node) == Frame("visit", "start", node)
\* super().visit(node): CloningVisitor.visit, without the checks of Resolver.visit
SuperCall(node) == [Call(node) EXCEPT !.bypass = TRUE]

Top == stack[Len(stack)]
Running == status = "running" /\ Len(stack) > 0
SetTop(f) == [stack EXCEPT ![Len(stack)] = f]
TopScope == scopes[Len(scopes)]
Pop(s) == SubSeq(s, 1, Len(s) - 1)

\* what a handler segment ends with
Raise(kind, msg) == [op |-> "raise", kind |-> kind, msg |-> msg]
Ret(value) == [op |-> "return", value |-> value]
Visit(frame, call) == [op |-> "call", frame |-> frame, call |-> call]

\* history: a suspended activation remembers the two counters as they were
\* when the handler segment that made the call began
Suspended(frame) ==
    [frame EXCEPT !.save = [cte_counter |-> cte_counter,
                            current_view_depth |-> current_view_depth]]

\* does the activation hand the children of its own node, as they are, to
\* visit? visit_join_expr, visit_lambda and the expansions of visit_field
\* visit clones, and the columns of an asterisk are new nodes
PassesOwnChildren(frame) ==
    /\ frame.fn \in {"select_query", "select_union_query", "alias", "and",
                     "join_constraint"}
    /\ frame.pc # "asterisk"

\* history: is the node of the called activation a node of the input AST
Called(frame, call) ==
    [call EXCEPT !.input = Top.input /\ PassesOwnChildren(frame)]

Do(o) ==
    CASE o.op = "raise" ->
            /\ status' = o.kind
            /\ message' = o.msg
            /\ UNCHANGED <<stack, ret>>
      [] o.op = "return" ->
            /\ stack' = Pop(stack)
            /\ ret' = o.value
            /\ status' = IF Len(stack) = 1 THEN "done" ELSE status
            /\ UNCHANGED message
      [] o.op = "call" ->
            /\ stack' = Append(SetTop(Suspended([o.frame EXCEPT !.input = Top.input])),
                               Called(o.frame, o.call))
            /\ ret' = None
            /\ UNCHANGED <<status, message>>

cfg == <<query, dialect, max_view_depth, preseed>>

(* Resolver.visit: the two guards, then the dispatch on the node's class.  *)
AlreadyTyped(node) == node # None /\ node.type # NoType

\* a faulty guard: off by one, it lets one more expansion through
TooManyCTEsLate(counter) == counter > CteLimit + 1
TooManyCTEs(counter) == counter > CteLimit

Entering(kind) ==
    /\ Running
    /\ Top.fn = "visit"
    /\ Top.node.kind = kind
    /\ Top.bypass \/ (~AlreadyTyped(Top.node) /\ ~TooManyCTEs(cte_counter))

VisitAlreadyTyped ==
    /\ Running /\ Top.fn = "visit" /\ ~Top.bypass
    /\ AlreadyTyped(Top.node)
    /\ Do(Raise("ResolutionError", "Type already resolved"))
    /\ UNCHANGED <<cfg, mutated, scopes, cte_counter, current_view_depth, errors,
                   notices, expansions, next_sid>>

TooManyMessage == "Too many CTE expansions (50+). Probably a CTE loop."

VisitTooManyCTEs ==
    /\ Running /\ Top.fn = "visit" /\ ~Top.bypass
    /\ ~AlreadyTyped(Top.node)
    /\ TooManyCTEs(cte_counter)
    /\ Do(Raise("QueryError", TooManyMessage))
    /\ UNCHANGED <<cfg, mutated, scopes, cte_counter, current_view_depth, errors,
                   notices, expansions, next_sid>>

VisitNone ==
    /\ Entering("None")
    /\ Do(Ret(None))
    /\ UNCHANGED <<cfg, mutated, scopes, cte_counter, current_view_depth, errors,
                   notices, expansions, next_sid>>

-----------------------------------------------------------------------------
(* visit_constant, visit_and                                               *)

VisitConstant ==
    /\ Entering("Constant")
    /\ LET ty == resolve_constant_data_type(Top.node.value)
       IN  Do(IF ty = NoType
              THEN Raise("ImpossibleASTError", "Unsupported constant type")
              ELSE Ret([Top.node EXCEPT !.type = ty]))
    /\ UNCHANGED <<cfg, mutated, scopes, cte_counter, current_view_depth, errors,
                   notices, expansions, next_sid>>

VisitAnd ==
    /\ Entering("And")
    /\ LET node == Top.node
       IN  Do(IF Len(node.exprs) = 0
              THEN Ret([node EXCEPT !.type = BooleanType])
              ELSE Visit([Frame("and", "exprs", node) EXCEPT !.i = 1],
                         Call(node.exprs[1])))
    /\ UNCHANGED <<cfg, mutated, scopes, cte_counter, current_view_depth, errors,
                   notices, expansions, next_sid>>

AndResume ==
    /\ Running /\ Top.fn = "and"
    /\ LET f == Top
           acc == Append(f.acc, ret)
       IN  Do(IF f.i < Len(f.node.exprs)
              THEN Visit([f EXCEPT !.i = f.i + 1, !.acc = acc],
                         Call(f.node.exprs[f.i + 1]))
              ELSE Ret([f.node EXCEPT !.exprs = acc, !.type = BooleanType]))
    /\ UNCHANGED <<cfg, mutated, scopes, cte_counter, current_view_depth, errors,
                   notices, expansions, next_sid>>

-----------------------------------------------------------------------------
(* visit_array_access.  A Constant is modelled by the class of its value;  *)
(* as the key of an access it stands for the text of that name.            *)

RECURSIVE StripAlias(_)
StripAlias(expr) == IF expr.kind = "Alias" THEN StripAlias(expr.expr) ELSE expr

\* is array[property] the access to a key of a JSON field or of a Property
IsJsonAccess(array, property) ==
    /\ array.kind = "Field"
    /\ property.kind = "Constant"
    /\ property.value \in {"str", "int", "bool"}
    /\ array.type.t = "Property" \/ (array.type.t = "Field" /\ is_json_field(array.type))

\* array.chain.append(key); array.type = array.type.get_child(key); return array
FoldedAccess(array, key) ==
    [array EXCEPT !.chain = Append(@, key), !.type = get_child(array.type, key)]

VisitArrayAccess ==
    /\ Entering("ArrayAccess")
    /\ Do(Visit(Frame("array_access", "array", Top.node), Call(Top.node.array)))
    /\ UNCHANGED <<cfg, mutated, scopes, cte_counter, current_view_depth, errors,
                   notices, expansions, next_sid>>

ArrayAccessAfterArray ==
    /\ Running /\ Top.fn = "array_access" /\ Top.pc = "array"
    /\ Do(Visit([Top EXCEPT !.pc = "property",
                            !.new = [Top.node EXCEPT !.array = ret]],
                Call(Top.node.property)))
    /\ UNCHANGED <<cfg, mutated, scopes, cte_counter, current_view_depth, errors,
                   notices, expansions, next_sid>>

ArrayAccessResume ==
    /\ Running /\ Top.fn = "array_access" /\ Top.pc = "property"
    /\ \E array \in {StripAlias(Top.new.array)} :
           Do(Ret(IF IsJsonAccess(array, ret)
                  THEN FoldedAccess(array, ret.value)
                  ELSE [Top.new EXCEPT !.property = ret]))
    /\ UNCHANGED <<cfg, mutated, scopes, cte_counter, current_view_depth, errors,
                   notices, expansions, next_sid>>

-----------------------------------------------------------------------------
(* visit_alias                                                             *)

\* the collision test made before the aliased expression is visited
AliasCollides(aliases, node) == Has(aliases, node.alias) /\ ~node.hidden

\* the registration made after it
AliasRegister(aliases, node, ty) ==
    IF node.hidden THEN aliases ELSE Put(aliases, node.alias, ty)

VisitAlias ==
    /\ Entering("Alias")
    /\ LET node == Top.node
       IN  Do(IF Len(scopes) = 0
              THEN Raise("QueryError", "Aliases are allowed only within SELECT queries")
              ELSE IF AliasCollides(TopScope.aliases, node)
              THEN Raise("QueryError", "Cannot redefine an alias with the name")
              ELSE IF node.alias = ""
              THEN Raise("ImpossibleASTError", "Alias cannot be empty")
              ELSE Visit(Frame("alias", "expr", node), Call(node.expr)))
    /\ UNCHANGED <<cfg, mutated, scopes, cte_counter, current_view_depth, errors,
                   notices, expansions, next_sid>>

AliasResume ==
    /\ Running /\ Top.fn = "alias"
    /\ LET node == Top.node
           ty == FieldAliasType(node.alias, TypeOr(ret.type, UnknownType))
       IN  /\ scopes' = [scopes EXCEPT ![Len(scopes)].aliases =
                             AliasRegister(@, node, ty)]
           /\ Do(Ret([node EXCEPT !.expr = ret, !.type = ty]))
    /\ UNCHANGED <<cfg, mutated, cte_counter, current_view_depth, errors, notices,
                   expansions, next_sid>>

-----------------------------------------------------------------------------
(* visit_lambda                                                            *)

RECURSIVE LambdaAliases(_)
LambdaAliases(args) ==
    IF Len(args) = 0 THEN <<>>
    ELSE LET arg == args[Len(args)]
         IN  Put(LambdaAliases(Pop(args)), arg,
                 FieldAliasType(arg, LambdaArgumentType(arg)))

VisitLambda ==
    /\ Entering("Lambda")
    /\ LET node == Top.node
           node_type == SelectQueryType(next_sid, <<>>, LambdaAliases(node.args),
                                        Len(scopes))
       IN  /\ scopes' = Append(scopes, node_type)
           /\ Do(Visit([Frame("lambda", "expr", node) EXCEPT !.sid = next_sid],
                       Call(node.expr)))
    /\ next_sid' = next_sid + 1
    /\ UNCHANGED <<cfg, mutated, cte_counter, current_view_depth, errors, notices,
                   expansions>>

\* self.scopes.pop() at the end of visit_lambda
LambdaPop(sc) == Pop(sc)

LambdaResume ==
    /\ Running /\ Top.fn = "lambda"
    /\ scopes' = LambdaPop(scopes)
    /\ Do(Ret([Top.node EXCEPT !.expr = ret, !.type = TopScope]))
    /\ UNCHANGED <<cfg, mutated, cte_counter, current_view_depth, errors, notices,
                   expansions, next_sid>>

-----------------------------------------------------------------------------
(* visit_field                                                             *)

NoTablesMessage == "Cannot use '*' when there are no tables in the query"
ManyTablesMessage ==
    "Cannot use '*' without table name when there are multiple tables in the query"

\* a faulty count: the anonymous tables are forgotten
named_table_count(scope) == Len(scope.tables)

\* table_count = len(scope.anonymous_tables) + len(scope.tables)
table_count(scope) == Len(scope.anonymous_tables) + Len(scope.tables)

\* the bare asterisk: exactly one source in the scope, anonymous ones count
asterisk_seed(scope) ==
    IF table_count(scope) = 0
        THEN Raise("QueryError", NoTablesMessage)
        ELSE IF table_count(scope) > 1
        THEN Raise("QueryError", ManyTablesMessage)
        ELSE [op |-> "type",
              type |-> AsteriskType(IF Len(scope.anonymous_tables) > 0
                                    THEN scope.anonymous_tables[1]
                                    ELSE scope.tables[1].v)]

\* what the first segment of the chain is bound to: a table of the scope
\* (for a longer chain), else an alias or a column, else a CTE, else nothing
seed_cte(chain, cte) ==
    IF cte = None THEN [op |-> "unresolved"]
    ELSE IF Len(chain) > 1 THEN Raise("QueryError", "Cannot access fields on CTE")
    ELSE [op |-> "cte", cte |-> cte]
seed_lookup(sc, chain, ty) ==
    IF ty = Ambiguous
    THEN Raise("QueryError", "Ambiguous query. Found multiple sources for field")
    ELSE IF ty = NoType
    THEN Bind(lookup_cte_by_name(sc, chain[1]), LAMBDA cte : seed_cte(chain, cte))
    ELSE [op |-> "type", type |-> ty]
seed_table(sc, chain, by_table) ==
    IF by_table # NoType THEN [op |-> "type", type |-> by_table]
    ELSE Bind(lookup_field_by_name(sc, Len(sc), chain[1]),
              LAMBDA ty : seed_lookup(sc, chain, ty))
table_of(scope, chain) ==
    IF Len(chain) > 1 /\ Has(scope.tables, chain[1])
    THEN Get(scope.tables, chain[1]) ELSE NoType
field_seed(sc, chain) ==
    IF chain[1] = "*" /\ Len(chain) = 1 THEN asterisk_seed(sc[Len(sc)])
    ELSE Bind(table_of(sc[Len(sc)], chain),
              LAMBDA by_table : seed_table(sc, chain, by_table))

\* the walk down the rest of the chain (the catalog declares no traverser
\* and the inputs hold no ".." segment); NoType when a child is missing
RECURSIVE WalkChain(_, _)
WalkStep(child, rest) ==
    IF child = NoType THEN NoType ELSE WalkChain(child, rest)
WalkChain(ty, rest) ==
    IF Len(rest) = 0 THEN ty
    ELSE Bind(get_child(ty, Head(rest)), LAMBDA child : WalkStep(child, Tail(rest)))

\* a single-segment identifier naming a sub-query CTE, used as a value
SubqueryCteValue(node) == Field(node.chain)

\* the hidden alias a resolved Field or Property is wrapped in
HiddenAlias(node, ty, alias, type_alias) ==
    Ret([Alias(alias, [node EXCEPT !.type = ty], TRUE)
         EXCEPT !.type = FieldAliasType(type_alias, ty)])

\* from the type of the deepest segment to the node returned
leaf_of(node, ty, dia, field_name) ==
    IF ty = NoType THEN Raise("ResolutionError", "Cannot resolve type")
    ELSE IF ty.t = "ExpressionField" /\ dia = "clickhouse"
    THEN Visit(Frame("field", "expression", node),
               Call(Alias(ty.name, clone_expr(ty.expr), TRUE)))
    ELSE IF ty.t = "Field"
    THEN HiddenAlias(node, ty, IF field_name # "" THEN field_name ELSE ty.name,
                     ty.name)
    ELSE IF ty.t = "Property"
    THEN HiddenAlias(node, ty, JoinStr(ty.chain), JoinStr(ty.chain))
    ELSE Ret([node EXCEPT !.type = ty])

field_leaf(node, seed_type, dia) ==
    Bind(WalkChain(seed_type, Tail(node.chain)),
         LAMBDA ty : leaf_of(node, ty, dia, node.chain[Len(node.chain)]))

\* the whole of visit_field up to its first recursive visit:
\* the outcome, the change of cte_counter, the diagnostic and the notice
Quiet(o) == [o |-> o, dcte |-> 0, err |-> <<>>, notice |-> 0]

\* add_notice for a Field leaf whose source offsets are known
Noticed(node, leaf) ==
    [Quiet(leaf) EXCEPT !.notice =
        IF leaf.op = "return" /\ leaf.value.kind = "Alias"
           /\ leaf.value.expr.type.t = "Field"
           /\ node.start # -1 /\ node.end # -1
        THEN 1 ELSE 0]

UnableMessage(name) == "Unable to resolve field: " \o name

\* a faulty test: no dialect is strict
never_strict(dia) == FALSE

\* self.dialect == "clickhouse", where the unresolved identifier is handled
is_strict(dia) == dia = "clickhouse"

Unresolved(node, leaf, name) ==
    [Quiet(leaf) EXCEPT !.err =
        <<[start |-> node.start, end |-> node.end,
           message |-> UnableMessage(name)]>>]

field_seeded(node, dia, seed) ==
    CASE seed.op = "raise" -> Quiet(seed)
      [] seed.op = "cte" ->
            IF seed.cte.cte_type = "subquery"
            THEN Quiet(Ret(SubqueryCteValue(node)))
            ELSE [Quiet(Visit(Frame("field", "cte", node),
                              Call(clone_expr(seed.cte.expr))))
                  EXCEPT !.dcte = 1]
      [] seed.op = "unresolved" ->
            IF is_strict(dia)
            THEN Quiet(Raise("QueryError", UnableMessage(node.chain[1])))
            ELSE Bind(field_leaf(node, UnresolvedFieldType(node.chain[1]), dia),
                      LAMBDA leaf : Unresolved(node, leaf, node.chain[1]))
      [] seed.op = "type" ->
            Bind(field_leaf(node, seed.type, dia), LAMBDA leaf : Noticed(node, leaf))

visit_field(sc, node, dia) ==
    IF Len(node.chain) = 0
    THEN Quiet(Raise("ResolutionError", "Invalid field access with empty chain"))
    ELSE IF Len(sc) = 0
    THEN Quiet(Raise("IndexError", "list index out of range"))
    ELSE Bind(field_seed(sc, node.chain),
              LAMBDA seed : field_seeded(node, dia, seed))

FieldStep(r) ==
    /\ Do(r.o)
    /\ cte_counter' = cte_counter + r.dcte
    /\ expansions' = expansions + r.dcte
    /\ errors' = errors \o r.err
    /\ notices' = notices + r.notice

VisitField ==
    /\ Entering("Field")
    /\ \E r \in {visit_field(scopes, Top.node, dialect)} : FieldStep(r)
    /\ UNCHANGED <<cfg, mutated, scopes, current_view_depth, next_sid>>

\* a faulty exit: the counter is not given back
CteStay(counter) == counter

\* cte_counter -= 1 after the expanded CTE is resolved
CteLeave(counter) == counter - 1

\* the value of a column CTE has been resolved
FieldCteResume ==
    /\ Running /\ Top.fn = "field" /\ Top.pc = "cte"
    /\ cte_counter' = CteLeave(cte_counter)
    /\ Do(Ret(ret))
    /\ UNCHANGED <<cfg, mutated, scopes, current_view_depth, errors, notices,
                   expansions, next_sid>>

\* the hidden alias standing for an expression field has been resolved
FieldExpressionResume ==
    /\ Running /\ Top.fn = "field" /\ Top.pc = "expression"
    /\ Do(Ret(ret))
    /\ UNCHANGED <<cfg, mutated, scopes, cte_counter, current_view_depth, errors,
                   notices, expansions, next_sid>>

-----------------------------------------------------------------------------
(* CloningVisitor.visit_join_constraint: the clone carries no type         *)

VisitJoinConstraint ==
    /\ Entering("JoinConstraint")
    /\ Do(Visit(Frame("join_constraint", "expr", Top.node), Call(Top.node.expr)))
    /\ UNCHANGED <<cfg, mutated, scopes, cte_counter, current_view_depth, errors,
                   notices, expansions, next_sid>>

JoinConstraintResume ==
    /\ Running /\ Top.fn = "join_constraint"
    /\ Do(Ret([Top.node EXCEPT !.expr = ret]))
    /\ UNCHANGED <<cfg, mutated, scopes, cte_counter, current_view_depth, errors,
                   notices, expansions, next_sid>>

-----------------------------------------------------------------------------
(* visit_select_query                                                      *)

\* the single-expression clauses resolved after ARRAY JOIN, in the order of
\* the code (the list clauses GROUP BY, ORDER BY, LIMIT BY and the window
\* expressions are skipped when empty, as they are in every input here)
Clauses == <<"where", "prewhere", "having", "limit", "offset">>

\* ARRAY JOIN pass 1: a placeholder per alias, unless the name is taken
RECURSIVE ArrayJoinPass1(_, _)
ArrayJoinPass1(aliases, keys) ==
    IF Len(keys) = 0 THEN [ok |-> TRUE, aliases |-> aliases]
    ELSE IF Has(aliases, Head(keys)) THEN [ok |-> FALSE, aliases |-> aliases]
    ELSE ArrayJoinPass1(
             Put(aliases, Head(keys), FieldAliasType(Head(keys), UnknownType)),
             Tail(keys))

\* a faulty pass 2: the placeholders stay
ArrayJoinKeep(aliases, keys) == aliases

\* ARRAY JOIN pass 2: the placeholders are deleted
RECURSIVE ArrayJoinPass2(_, _)
ArrayJoinPass2(aliases, keys) ==
    IF Len(keys) = 0 THEN aliases
    ELSE ArrayJoinPass2(Del(aliases, Head(keys)), Tail(keys))

\* the name a SELECT item is exported under ("" when it has none)
ExportName(e) ==
    CASE e.type.t = "FieldAlias" -> e.type.alias
      [] e.type.t = "Field" -> e.type.name
      [] e.type.t = "ExpressionField" -> e.type.name
      [] e.kind = "Alias" -> e.alias
      [] OTHER -> ""

IsHidden(e) == e.kind = "Alias" /\ e.hidden

\* a faulty test: a hidden item always writes
HiddenAlwaysExports(columns, visible, alias) == TRUE

\* may a hidden item write columns[alias]
HiddenMayExport(columns, visible, alias) ==
    ~Has(columns, alias) \/ alias \notin visible

\* one turn of the export loop: columns, and the names last written by a
\* visible item
ExportItem(st, e, alias) ==
    IF alias = "" THEN st
    ELSE IF IsHidden(e)
    THEN IF HiddenMayExport(st.columns, st.visible, alias)
         THEN [columns |-> Put(st.columns, alias, e.type),
               visible |-> st.visible \ {alias}]
         ELSE st
    ELSE [columns |-> Put(st.columns, alias, e.type),
          visible |-> st.visible \cup {alias}]

RECURSIVE ExportUpTo(_, _)
ExportUpTo(select_nodes, n) ==
    IF n = 0 THEN [columns |-> <<>>, visible |-> {}]
    ELSE Bind(ExportUpTo(select_nodes, n - 1),
              LAMBDA st : ExportItem(st, select_nodes[n], ExportName(select_nodes[n])))

ExportColumns(select_nodes) == ExportUpTo(select_nodes, Len(select_nodes))

VisitSelectQuery ==
    /\ Entering("SelectQuery")
    /\ LET node == Top.node
           node_type == SelectQueryType(next_sid, node.ctes, <<>>, 0)
           new_node == SelectQuery(<<>>, <<>>, None, <<>>, None)
       IN  /\ scopes' = Append(scopes, node_type)
           /\ Do(Visit([Frame("select_query", "from", node)
                        EXCEPT !.sid = next_sid, !.new = new_node],
                       Call(node.select_from)))
    /\ next_sid' = next_sid + 1
    /\ UNCHANGED <<cfg, mutated, cte_counter, current_view_depth, errors, notices,
                   expansions>>

\* WHERE and the clauses after it
SelectClauses(f) ==
    Visit([f EXCEPT !.pc = "clause", !.i = 1], Call(f.node[Clauses[1]]))

\* the SELECT list is resolved: export the columns, then ARRAY JOIN pass 2
SelectColumns(f, select_nodes, scope) ==
    LET g == [f EXCEPT !.new = [f.new EXCEPT !.select = select_nodes],
                       !.acc = <<>>, !.cols = <<>>, !.j = 0]
    IN  IF Len(f.node.array_join_list) > 0
        THEN [o |-> Visit([g EXCEPT !.pc = "array_join", !.i = 1],
                          Call(f.node.array_join_list[1])),
              scope |-> [scope EXCEPT
                            !.columns = ExportColumns(select_nodes).columns,
                            !.aliases = ArrayJoinPass2(@, f.aux)]]
        ELSE [o |-> SelectClauses(g),
              scope |-> [scope EXCEPT
                            !.columns = ExportColumns(select_nodes).columns]]

\* the next item of the SELECT list, or the end of the list
SelectNext(f, select_nodes, scope) ==
    IF f.i < Len(f.node.select)
    THEN [o |-> Visit([f EXCEPT !.pc = "select", !.i = f.i + 1,
                                !.acc = select_nodes, !.cols = <<>>, !.j = 0],
                      Call(f.node.select[f.i + 1])),
          scope |-> scope]
    ELSE SelectColumns(f, select_nodes, scope)

\* a step of visit_select_query that may rewrite the scope of the query
SelectStep(r) ==
    /\ scopes' = [scopes EXCEPT ![Len(scopes)] = r.scope]
    /\ Do(r.o)

AfterFrom(f, scope, keys, pass1) ==
    IF ~pass1.ok
    THEN [o |-> Raise("QueryError", "Cannot redefine an alias with the name"),
          scope |-> [scope EXCEPT !.aliases = pass1.aliases]]
    ELSE SelectNext([f EXCEPT !.aux = keys], <<>>,
                    [scope EXCEPT !.aliases = pass1.aliases])

\* FROM is resolved: ARRAY JOIN pass 1, then the first SELECT item
SelectAfterFrom ==
    /\ Running /\ Top.fn = "select_query" /\ Top.pc = "from"
    /\ \E keys \in {Concat([i \in 1..Len(Top.node.array_join_list) |->
                               AliasCollector(Top.node.array_join_list[i])])} :
       \E pass1 \in {ArrayJoinPass1(TopScope.aliases, keys)} :
       \E r \in {AfterFrom([Top EXCEPT !.new = [Top.new EXCEPT !.select_from = ret]],
                           TopScope, keys, pass1)} :
           SelectStep(r)
    /\ UNCHANGED <<cfg, mutated, cte_counter, current_view_depth, errors, notices,
                   expansions, next_sid>>

AfterItem(f, item, scope, expanded) ==
    IF item.type.t # "Asterisk"
    THEN SelectNext(f, Append(f.acc, item), scope)
    ELSE IF ~expanded.ok
    THEN [o |-> Raise("QueryError", "Can't expand asterisk (*)"), scope |-> scope]
    ELSE IF Len(expanded.columns) = 0
    THEN SelectNext(f, f.acc, scope)
    ELSE [o |-> Visit([f EXCEPT !.pc = "asterisk", !.cols = expanded.columns,
                                !.j = 1],
                      Call(expanded.columns[1])),
          scope |-> scope]

\* one item of the SELECT list is resolved; an asterisk is expanded
SelectAfterItem ==
    /\ Running /\ Top.fn = "select_query" /\ Top.pc = "select"
    /\ \E expanded \in {IF ret.type.t = "Asterisk" THEN _asterisk_columns(ret.type)
                        ELSE [ok |-> TRUE, columns |-> <<>>]} :
       \E r \in {AfterItem(Top, ret, TopScope, expanded)} :
           SelectStep(r)
    /\ UNCHANGED <<cfg, mutated, cte_counter, current_view_depth, errors, notices,
                   expansions, next_sid>>

AfterAsteriskColumn(f, acc, scope) ==
    IF f.j < Len(f.cols)
    THEN [o |-> Visit([f EXCEPT !.acc = acc, !.j = f.j + 1], Call(f.cols[f.j + 1])),
          scope |-> scope]
    ELSE SelectNext(f, acc, scope)

\* one identifier emitted for an asterisk is resolved
SelectAfterAsteriskColumn ==
    /\ Running /\ Top.fn = "select_query" /\ Top.pc = "asterisk"
    /\ \E r \in {AfterAsteriskColumn(Top, Append(Top.acc, ret), TopScope)} :
           SelectStep(r)
    /\ UNCHANGED <<cfg, mutated, cte_counter, current_view_depth, errors, notices,
                   expansions, next_sid>>

\* one ARRAY JOIN expression is resolved
SelectAfterArrayJoin ==
    /\ Running /\ Top.fn = "select_query" /\ Top.pc = "array_join"
    /\ LET f == Top
           acc == Append(f.acc, ret)
       IN  Do(IF f.i < Len(f.node.array_join_list)
              THEN Visit([f EXCEPT !.acc = acc, !.i = f.i + 1],
                         Call(f.node.array_join_list[f.i + 1]))
              ELSE SelectClauses([f EXCEPT !.new =
                                      [f.new EXCEPT !.array_join_list = acc],
                                  !.acc = <<>>]))
    /\ UNCHANGED <<cfg, mutated, scopes, cte_counter, current_view_depth, errors,
                   notices, expansions, next_sid>>

\* self.scopes.pop() at the end of visit_select_query
SelectPop(sc) == Pop(sc)

\* one clause is resolved; after the last one the scope is popped
SelectAfterClause ==
    /\ Running /\ Top.fn = "select_query" /\ Top.pc = "clause"
    /\ LET f == Top
           new == [f.new EXCEPT ![Clauses[f.i]] = ret]
       IN  IF f.i < Len(Clauses)
           THEN /\ Do(Visit([f EXCEPT !.new = new, !.i = f.i + 1],
                            Call(f.node[Clauses[f.i + 1]])))
                /\ UNCHANGED scopes
           ELSE /\ scopes' = SelectPop(scopes)
                /\ Do(Ret([new EXCEPT !.type = TopScope,
                                      !.view_name = f.node.view_name]))
    /\ UNCHANGED <<cfg, mutated, cte_counter, current_view_depth, errors, notices,
                   expansions, next_sid>>

-----------------------------------------------------------------------------
(* visit_select_union_query                                                *)

VisitSelectUnionQuery ==
    /\ Entering("SelectUnionQuery")
    /\ LET node == Top.node
           default_ctes == IF Len(node.select_queries) > 0
                           THEN node.select_queries[1].ctes ELSE <<>>
           pushed == Len(default_ctes) > 0
           f == [Frame("select_union_query", "queries", node)
                 EXCEPT !.sid = IF pushed THEN next_sid ELSE 0, !.i = 1]
       IN  /\ scopes' = IF pushed
                        THEN Append(scopes,
                                    SelectQueryType(next_sid, default_ctes, <<>>, 0))
                        ELSE scopes
           /\ next_sid' = IF pushed THEN next_sid + 1 ELSE next_sid
           /\ Do(IF Len(node.select_queries) = 0
                 THEN Ret([node EXCEPT !.type = SelectUnionQueryType(<<>>)])
                 ELSE Visit(f, Call(node.select_queries[1])))
    /\ UNCHANGED <<cfg, mutated, cte_counter, current_view_depth, errors, notices,
                   expansions>>

\* a faulty exit: the scope of the first branch's CTEs is left on the stack
UnionKeep(sc, pushed) == sc

\* the pop that matches the push of the first branch's CTEs
UnionPop(sc, pushed) == IF pushed THEN Pop(sc) ELSE sc

SelectUnionResume ==
    /\ Running /\ Top.fn = "select_union_query"
    /\ LET f == Top
           acc == Append(f.acc, ret)
       IN  IF f.i < Len(f.node.select_queries)
           THEN /\ Do(Visit([f EXCEPT !.acc = acc, !.i = f.i + 1],
                            Call(f.node.select_queries[f.i + 1])))
                /\ UNCHANGED scopes
           ELSE /\ scopes' = UnionPop(scopes, f.sid # 0)
                /\ Do(Ret([f.node EXCEPT
                              !.select_queries = acc,
                              !.type = SelectUnionQueryType(
                                           [k \in 1..Len(acc) |-> acc[k].type])]))
    /\ UNCHANGED <<cfg, mutated, cte_counter, current_view_depth, errors, notices,
                   expansions, next_sid>>

-----------------------------------------------------------------------------
(* visit_join_expr                                                         *)

\* a faulty test: any constraint passes for the kind asked about
ConstrainedAtAll(node, kind) == node.constraint # None

\* node.constraint and node.constraint.constraint_type == kind
ConstrainedBy(node, kind) ==
    node.constraint # None /\ node.constraint.constraint_type = kind

IsEventsTable(ty) ==
    resolve_database_table(ty) # ""
    /\ get_table(resolve_database_table(ty)).kind = "events"

_is_next_s3(node) ==
    IF node = None THEN FALSE
    ELSE IF node.type.t = "TableAlias"
    THEN get_table(resolve_database_table(node.type)).kind = "s3"
    ELSE FALSE

NestedViewsMessage == "Nested views are not supported"

\* the view-depth guard, made after current_view_depth is incremented
TooDeep(depth, max) == depth > max

\* entry of visit_join_expr, up to its first recursive visit:
\* node.table = parse_select(...); node.table.view_name = ...;
\* node.alias = table_alias: written to the node visit_join_expr was given
ViewJoin(node, database_table, table_name, table_alias) ==
    [node EXCEPT !.table = [parse_select(database_table)
                            EXCEPT !.view_name = table_name],
                 !.alias = table_alias]

\* the outcome and the changes of cte_counter and current_view_depth
visit_join_expr(sc, node, depth, max) ==
    LET quiet(o) == [o |-> o, dcte |-> 0, dview |-> 0, write |-> {}]
        scope == sc[Len(sc)]
        table == node.table
        table_name == table.chain[1]
        cte == IF table.kind = "Field" /\ Len(table.chain) = 1
               THEN lookup_cte_by_name(sc, table_name) ELSE None
        table_alias == IF node.alias # "" THEN node.alias ELSE table_name
        database_table == get_table(table_name)
        node_table_type == IF database_table.kind = "lazy"
                           THEN LazyTableType(table_name)
                           ELSE TableType(table_name)
        node_type == IF table_alias # table_name \/ database_table.function_call
                     THEN TableAliasType(table_alias, node_table_type)
                     ELSE node_table_type
        f == [Frame("join_expr", "using", node)
              EXCEPT !.new = clone_expr(node)]
        has(kind) == ConstrainedBy(node, kind)
    IN  IF Len(sc) = 0
        THEN quiet(Raise("ImpossibleASTError", "Unexpected JoinExpr outside a SELECT query"))
        ELSE IF cte # None
        THEN [quiet(Visit([f EXCEPT !.pc = "cte"],
                          Call([clone_expr(node) EXCEPT
                                   !.table = clone_expr(cte.expr),
                                   !.alias = table_alias])))
              EXCEPT !.dcte = 1]
        ELSE IF table.kind = "Field"
        THEN IF Has(scope.tables, table_alias)
             THEN quiet(Raise("QueryError", "Already have joined a table called"))
             ELSE IF database_table = None
             THEN quiet(Raise("QueryError", "Unknown table"))
             ELSE IF database_table.kind = "saved_query"
             THEN IF TooDeep(depth + 1, max)
                  THEN [quiet(Raise("QueryError", NestedViewsMessage))
                        EXCEPT !.dview = 1]
                  ELSE [quiet(Visit([f EXCEPT !.pc = "view"],
                                    Call(ViewJoin(node, database_table,
                                                  table_name, table_alias))))
                        EXCEPT !.dview = 1,
                               !.write = {[node |-> node,
                                           as |-> ViewJoin(node, database_table,
                                                           table_name, table_alias)]}]
             ELSE LET g == [f EXCEPT !.aux = [path |-> "table",
                                              scope |-> scope.sid,
                                              alias |-> table_alias,
                                              type |-> node_type,
                                              table_type |-> node_table_type]]
                  IN  IF has("USING")
                      THEN quiet(Visit([g EXCEPT !.nres = 1], Call(node.constraint)))
                      ELSE quiet([op |-> "register", frame |-> g])
        ELSE IF table.kind \in {"SelectQuery", "SelectUnionQuery"}
        THEN LET g == [f EXCEPT !.aux = [path |-> "subquery", scope |-> scope.sid,
                                    alias |-> node.alias]]
             IN  IF has("USING")
                 THEN quiet(Visit([g EXCEPT !.pc = "sub_using", !.nres = 1],
                                  Call(node.constraint)))
                 ELSE quiet(Visit([g EXCEPT !.pc = "sub_table"],
                                  SuperCall(node.table)))
        ELSE quiet(Raise("QueryError", "cannot be used as a SELECT source"))

\* scope.tables[table_alias] = node_type
RegisterTable(tables, alias, ty) == Put(tables, alias, ty)

\* the named table is registered in the scope; next_join comes next
JoinRegister(f, scope) ==
    LET new == [f.new EXCEPT !.type = f.aux.type,
                             !.table = [clone_expr(f.new.table)
                                        EXCEPT !.type = f.aux.table_type]]
    IN  [o |-> Visit([f EXCEPT !.pc = "next", !.new = new],
                     Call(new.next_join)),
         scope |-> [scope EXCEPT !.tables =
                        RegisterTable(@, f.aux.alias, f.aux.type)]]

JoinStep(r) ==
    /\ mutated' = IF Top.input THEN mutated \cup r.write ELSE mutated
    /\ cte_counter' = cte_counter + r.dcte
    /\ expansions' = expansions + r.dcte
    /\ current_view_depth' = current_view_depth + r.dview
    /\ IF r.o.op = "register"
       THEN \E reg \in {JoinRegister(r.o.frame, TopScope)} :
                /\ scopes' = [scopes EXCEPT ![Len(scopes)] = reg.scope]
                /\ Do(reg.o)
       ELSE /\ UNCHANGED scopes
            /\ Do(r.o)

VisitJoinExpr ==
    /\ Entering("JoinExpr")
    /\ \E r \in {visit_join_expr(scopes, Top.node, current_view_depth,
                                 max_view_depth)} : JoinStep(r)
    /\ UNCHANGED <<cfg, errors, notices, next_sid>>

JoinCteResume ==
    /\ Running /\ Top.fn = "join_expr" /\ Top.pc = "cte"
    /\ cte_counter' = CteLeave(cte_counter)
    /\ Do(Ret(ret))
    /\ UNCHANGED <<cfg, mutated, scopes, current_view_depth, errors, notices,
                   expansions, next_sid>>

JoinViewResume ==
    /\ Running /\ Top.fn = "join_expr" /\ Top.pc = "view"
    /\ current_view_depth' = current_view_depth - 1
    /\ Do(Ret(ret))
    /\ UNCHANGED <<cfg, mutated, scopes, cte_counter, errors, notices, expansions,
                   next_sid>>

\* the USING constraint of a named table is resolved
JoinAfterUsing ==
    /\ Running /\ Top.fn = "join_expr" /\ Top.pc = "using"
    /\ LET f == [Top EXCEPT !.new = [Top.new EXCEPT !.constraint = ret]]
           reg == JoinRegister(f, TopScope)
       IN  /\ scopes' = [scopes EXCEPT ![Len(scopes)] = reg.scope]
           /\ Do(reg.o)
    /\ UNCHANGED <<cfg, mutated, cte_counter, current_view_depth, errors, notices,
                   expansions, next_sid>>

\* the USING constraint of a sub-query source is resolved
JoinAfterSubUsing ==
    /\ Running /\ Top.fn = "join_expr" /\ Top.pc = "sub_using"
    /\ LET f == [Top EXCEPT !.new = [Top.new EXCEPT !.constraint = ret],
                            !.pc = "sub_table"]
       IN  Do(Visit(f, SuperCall(f.new.table)))
    /\ UNCHANGED <<cfg, mutated, scopes, cte_counter, current_view_depth, errors,
                   notices, expansions, next_sid>>

\* the sub-query source is resolved and registered
JoinAfterSubTable ==
    /\ Running /\ Top.fn = "join_expr" /\ Top.pc = "sub_table"
    /\ LET f == Top
           alias == f.new.alias
           is_view == ret.kind = "SelectQuery" /\ ret.view_name # "" /\ alias # ""
           ty == IF is_view THEN SelectViewType(alias, ret.view_name, ret.type)
                 ELSE IF alias # "" THEN SelectQueryAliasType(alias, ret.type)
                 ELSE ret.type
           new == [f.new EXCEPT !.table = ret, !.type = ty]
       IN  IF alias # "" /\ Has(TopScope.tables, alias)
           THEN /\ Do(Raise("QueryError", "Already have joined a table called"))
                /\ UNCHANGED scopes
           ELSE /\ scopes' = [scopes EXCEPT ![Len(scopes)] =
                                 IF alias # ""
                                 THEN [@ EXCEPT !.tables = RegisterTable(@, alias, ty)]
                                 ELSE [@ EXCEPT !.anonymous_tables = Append(@, ty)]]
                /\ Do(Visit([f EXCEPT !.pc = "next", !.new = new],
                            Call(new.next_join)))
    /\ UNCHANGED <<cfg, mutated, cte_counter, current_view_depth, errors, notices,
                   expansions, next_sid>>

\* next_join is resolved: global-join promotion, then the ON constraint
JoinAfterNext ==
    /\ Running /\ Top.fn = "join_expr" /\ Top.pc = "next"
    /\ LET f == Top
           is_global == f.aux.path = "table" /\ IsEventsTable(f.new.type)
                        /\ _is_next_s3(ret)
           next_join == IF is_global THEN [ret EXCEPT !.join_type = "GLOBAL JOIN"]
                        ELSE ret
           new == [f.new EXCEPT !.next_join = next_join]
           g == [f EXCEPT !.new = new]
       IN  Do(IF ConstrainedBy(new, "ON")
              THEN Visit([g EXCEPT !.pc = "on", !.nres = f.nres + 1],
                         Call(new.constraint))
              ELSE Visit([g EXCEPT !.pc = "sample"], Call(new.sample)))
    /\ UNCHANGED <<cfg, mutated, scopes, cte_counter, current_view_depth, errors,
                   notices, expansions, next_sid>>

JoinAfterOn ==
    /\ Running /\ Top.fn = "join_expr" /\ Top.pc = "on"
    /\ LET f == [Top EXCEPT !.new = [Top.new EXCEPT !.constraint = ret],
                            !.pc = "sample"]
       IN  Do(Visit(f, Call(f.new.sample)))
    /\ UNCHANGED <<cfg, mutated, scopes, cte_counter, current_view_depth, errors,
                   notices, expansions, next_sid>>

JoinAfterSample ==
    /\ Running /\ Top.fn = "join_expr" /\ Top.pc = "sample"
    /\ LET f == Top
           alias == IF f.aux.path = "table" /\ f.aux.type.t = "TableAlias"
                       /\ f.new.alias = ""
                    THEN f.aux.type.alias ELSE f.new.alias
       IN  Do(Ret([f.new EXCEPT !.sample = ret, !.alias = alias]))
    /\ UNCHANGED <<cfg, mutated, scopes, cte_counter, current_view_depth, errors,
                   notices, expansions, next_sid>>

-----------------------------------------------------------------------------
(* The inputs of resolve_types: queries generated from small sets of       *)
(* SELECT items and join sources, and hand-written queries for CTEs,       *)
(* unions, lambdas and fragments resolved against pre-seeded scopes.       *)

SeqsUpTo(S, n) == UNION {[1..k -> S] : k \in 1..n}

One == Constant("int")
Col(name) == ParsedField(<<name>>, 7)
Select(select, select_from) == SelectQuery(<<>>, select, select_from, <<>>, None)
From(name, alias) == JoinExpr(Field(<<name>>), alias, None, None)
With(name, expr, cte_type) == [k |-> name, v |-> CTE(name, expr, cte_type)]

\* SELECT items: a column, visible aliases (one named like the column
\* "event", one like the table alias "e", one like the ARRAY JOIN alias "a"),
\* an alias nested in an alias of the same name, an explicit hidden alias,
\* the asterisk, an identifier bound by no table
Items ==
    { Col("event"),
      Alias("event", One, FALSE),
      Alias("e", One, FALSE),
      Alias("a", One, FALSE),
      Alias("a", Alias("a", One, FALSE), FALSE),
      Alias("event", Constant("str"), TRUE),
      Col("*"),
      Col("a") }

ArrayJoins ==
    { <<>>,
      <<Alias("a", Col("event"), FALSE)>>,
      <<Alias("a", Col("event"), FALSE), Alias("e", Col("id"), FALSE)>>,
      <<Alias("a", Col("event"), FALSE), Alias("a", Col("id"), FALSE)>> }

ItemQueries ==
    { SelectQuery(<<>>, select, From("events", "e"), aj, Col("event")) :
          select \in SeqsUpTo(Items, MaxSelect), aj \in ArrayJoins }

\* join sources: [table, alias, constraint]
Sub(select) == Select(select, From("events", ""))
Using(name) == JoinConstraint(Col(name), "USING")
On(chain) == JoinConstraint(ParsedField(chain, 7), "ON")
Sources ==
    { [table |-> Field(<<"events">>), alias |-> "", constraint |-> None],
      [table |-> Field(<<"events">>), alias |-> "e", constraint |-> None],
      [table |-> Field(<<"s3_table">>), alias |-> "", constraint |-> Using("id")],
      [table |-> Field(<<"s3_table">>), alias |-> "x", constraint |-> On(<<"x", "id">>)],
      [table |-> Sub(<<Col("id")>>), alias |-> "e", constraint |-> Using("id")],
      [table |-> Sub(<<Col("id")>>), alias |-> "q", constraint |-> On(<<"q", "id">>)],
      [table |-> Sub(<<Col("event")>>), alias |-> "", constraint |-> None],
      [table |-> Field(<<"v1">>), alias |-> "", constraint |-> None],
      [table |-> Field(<<"v2">>), alias |-> "", constraint |-> None],
      [table |-> Field(<<"v3">>), alias |-> "w", constraint |-> None] }

RECURSIVE JoinChain(_)
JoinChain(sources) ==
    IF Len(sources) = 0 THEN None
    ELSE JoinExpr(Head(sources).table, Head(sources).alias,
                  Head(sources).constraint, JoinChain(Tail(sources)))

JoinQueries ==
    { Select(<<One>>, JoinChain(sources)) : sources \in SeqsUpTo(Sources, MaxJoins) }

\* x1 AS (x2 AND x2), ..., x<n> AS 1: every column CTE uses the next twice
CteName(i) == "x" \o ToString(i)
RECURSIVE FanCtes(_)
FanCtes(n) ==
    IF n = 0 THEN <<With(CteName(0), One, "column")>>
    ELSE Append(FanCtes(n - 1),
                With(CteName(n),
                     And(<<Field(<<CteName(n - 1)>>), Field(<<CteName(n - 1)>>)>>),
                     "column"))

\* queries whose CTE refers to itself
CteCycles ==
    { \* WITH r AS (SELECT * FROM r) SELECT * FROM r
      SelectQuery(<<With("r", Select(<<Col("*")>>, From("r", "")), "subquery")>>,
                  <<Col("*")>>, From("r", ""), <<>>, None),
      \* WITH c AS c SELECT c
      SelectQuery(<<With("c", Field(<<"c">>), "column")>>, <<Col("c")>>,
                  None, <<>>, None),
      \* WITH a AS b, b AS a SELECT a
      SelectQuery(<<With("a", Field(<<"b">>), "column"),
                    With("b", Field(<<"a">>), "column")>>, <<Col("a")>>,
                  None, <<>>, None) }

CteQueries ==
    CteCycles \cup
    {
      \* WITH c AS (SELECT event FROM events) SELECT event FROM c
      SelectQuery(<<With("c", Sub(<<Col("event")>>), "subquery")>>,
                  <<Col("event")>>, From("c", ""), <<>>, None),
      \* WITH c AS (SELECT event FROM events) SELECT c
      SelectQuery(<<With("c", Sub(<<Col("event")>>), "subquery")>>,
                  <<Col("c")>>, None, <<>>, None),
      \* WITH 1 AS c SELECT c, c FROM events
      SelectQuery(<<With("c", One, "column")>>, <<Col("c"), Col("c")>>,
                  From("events", ""), <<>>, None),
      \* WITH c AS (SELECT id FROM events) SELECT 1 FROM events JOIN c USING (id)
      SelectQuery(<<With("c", Sub(<<Col("id")>>), "subquery")>>, <<One>>,
                  JoinExpr(Field(<<"events">>), "", None,
                           JoinExpr(Field(<<"c">>), "", Using("id"), None)),
                  <<>>, None),
      \* WITH c AS (SELECT event FROM events) SELECT (SELECT event FROM c)
      SelectQuery(<<With("c", Sub(<<Col("event")>>), "subquery")>>,
                  <<Select(<<Col("event")>>, From("c", ""))>>, None, <<>>, None),
      \* the fan of column CTEs
      SelectQuery(FanCtes(FanDepth), <<Field(<<CteName(FanDepth)>>)>>,
                  None, <<>>, None) }

ScopeQueries ==
    { \* WITH c AS (SELECT event FROM events) SELECT event FROM c UNION ALL SELECT event FROM c
      SelectUnionQuery(
          <<SelectQuery(<<With("c", Sub(<<Col("event")>>), "subquery")>>,
                        <<Col("event")>>, From("c", ""), <<>>, None),
            Select(<<Col("event")>>, From("c", ""))>>),
      SelectUnionQuery(<<Select(<<Col("event")>>, From("events", "")),
                         Select(<<Col("id")>>, From("events", ""))>>),
      SelectUnionQuery(<<>>),
      \* SELECT x -> (x AND event) FROM events
      Select(<<Lambda(<<"x">>, And(<<Col("x"), Col("event")>>))>>,
             From("events", "")),
      \* SELECT x -> e.event FROM events e
      Select(<<Lambda(<<"x">>, ParsedField(<<"e", "event">>, 7))>>,
             From("events", "e")),
      \* WITH 1 AS c SELECT (SELECT c)
      SelectQuery(<<With("c", One, "column")>>, <<Select(<<Col("c")>>, None)>>,
                  None, <<>>, None),
      \* SELECT (SELECT e.event) FROM events e
      Select(<<Select(<<ParsedField(<<"e", "event">>, 7)>>, None)>>,
             From("events", "e")),
      \* SELECT properties['str'] FROM events
      Select(<<ArrayAccess(Col("properties"), Constant("str"))>>,
             From("events", "")),
      \* SELECT e.properties.browser[int] FROM events e
      Select(<<ArrayAccess(ParsedField(<<"e", "properties", "browser">>, 7), One)>>,
             From("events", "e")),
      \* SELECT (SELECT event) FROM events: the inner query sees no table
      Select(<<Select(<<Col("event")>>, None)>>, From("events", "")),
      \* SELECT e.properties.browser, ef FROM events e
      Select(<<ParsedField(<<"e", "properties", "browser">>, 7), Col("ef")>>,
             From("events", "e")),
      Select(<<Col("event")>>, From("nope", "")),
      Select(<<Col("event")>>, JoinExpr(One, "", None, None)),
      Select(<<Alias("", One, FALSE)>>, None),
      Select(<<Constant("object")>>, None),
      Select(<<And(<<>>), Field(<<>>)>>, From("events", "")),
      \* a SELECT item that is already typed
      Select(<<[One EXCEPT !.type = IntegerType]>>, None),
      \* a sub-query source that is already typed
      Select(<<One>>,
             JoinExpr([Sub(<<Col("id")>>) EXCEPT
                          !.type = SelectQueryType(1, <<>>, <<>>, 0)],
                      "q", None, None)) }

\* asterisks, bare and table-qualified, over no, one and two sources
StarSources ==
    { <<>>,
      <<[table |-> Field(<<"events">>), alias |-> "e", constraint |-> None]>>,
      <<[table |-> Sub(<<Col("event")>>), alias |-> "", constraint |-> None]>>,
      <<[table |-> Field(<<"events">>), alias |-> "e", constraint |-> None],
        [table |-> Field(<<"s3_table">>), alias |-> "x", constraint |-> None]>>,
      <<[table |-> Field(<<"events">>), alias |-> "e", constraint |-> None],
        [table |-> Sub(<<Col("event")>>), alias |-> "", constraint |-> None]>> }

StarQueries ==
    { Select(<<star>>, JoinChain(sources)) :
          star \in {Col("*"), ParsedField(<<"e", "*">>, 7)},
          sources \in StarSources }

\* fragments resolved against the scope of an outer "FROM events"
Fragments ==
    { Col("event"), Alias("a", Col("event"), FALSE),
      Lambda(<<"x">>, Col("x")), From("events", "") }

EventsScope ==
    [SelectQueryType(1, <<>>, <<>>, 0)
     EXCEPT !.tables = <<[k |-> "events", v |-> TableType("events")]>>]

Dialects == {"clickhouse", "hogql"}

Input(node, sc, d, depth) ==
    [node |-> node, scopes |-> sc, dialect |-> d, max_view_depth |-> depth]

Inputs ==
    {Input(n, <<>>, d, 1) : n \in ItemQueries, d \in Dialects}
    \cup {Input(n, <<>>, "clickhouse", m) : n \in JoinQueries, m \in 1..MaxViewDepth}
    \cup {Input(n, <<>>, d, 1) : n \in CteQueries \cup ScopeQueries \cup StarQueries,
                               d \in Dialects}
    \cup {Input(n, sc, d, 1) : n \in Fragments, sc \in {<<>>, <<EventsScope>>},
                               d \in Dialects}

-----------------------------------------------------------------------------
(* resolve_types(node, context, dialect, scopes):                          *)
(* Resolver(scopes, context, dialect).visit(node)                          *)

Init ==
    \E input \in Inputs :
        /\ query = input.node
        /\ dialect = input.dialect
        /\ max_view_depth = input.max_view_depth
        /\ preseed = Len(input.scopes)
        /\ scopes = input.scopes
        /\ next_sid = Len(input.scopes) + 1
    /\ cte_counter = 0
    /\ current_view_depth = 0
    /\ stack = <<[Call(query) EXCEPT !.input = TRUE]>>
    /\ mutated = {}
    /\ ret = None
    /\ status = "running"
    /\ message = ""
    /\ errors = <<>>
    /\ notices = 0
    /\ expansions = 0

Next ==
    \/ VisitAlreadyTyped
    \/ VisitTooManyCTEs
    \/ VisitNone
    \/ VisitConstant
    \/ VisitAnd
    \/ AndResume
    \/ VisitArrayAccess
    \/ ArrayAccessAfterArray
    \/ ArrayAccessResume
    \/ VisitAlias
    \/ AliasResume
    \/ VisitLambda
    \/ LambdaResume
    \/ VisitField
    \/ FieldCteResume
    \/ FieldExpressionResume
    \/ VisitJoinConstraint
    \/ JoinConstraintResume
    \/ VisitSelectQuery
    \/ SelectAfterFrom
    \/ SelectAfterItem
    \/ SelectAfterAsteriskColumn
    \/ SelectAfterArrayJoin
    \/ SelectAfterClause
    \/ VisitSelectUnionQuery
    \/ SelectUnionResume
    \/ VisitJoinExpr
    \/ JoinCteResume
    \/ JoinViewResume
    \/ JoinAfterUsing
    \/ JoinAfterSubUsing
    \/ JoinAfterSubTable
    \/ JoinAfterNext
    \/ JoinAfterOn
    \/ JoinAfterSample

Spec == Init /\ [][Next]_vars

\* the interpreter runs the resolver to its end: no step is left pending
FairSpec == Spec /\ WF_vars(Next)

-----------------------------------------------------------------------------
(* Properties of the resolver.                                             *)

Done == status = "done"
Failed == status \notin {"running", "done"}

\* every Expr of a tree carries a type; an absent child (None) has nothing
\* to carry, and a JoinConstraint, which CloningVisitor copies without a
\* type, is looked through to its expression
RECURSIVE AllTyped(_)
AllTypedSeq(nodes) == \A i \in 1..Len(nodes) : AllTyped(nodes[i])
AllTyped(node) ==
    CASE node.kind = "None" -> TRUE
      [] node.kind \in {"Constant", "Field"} -> node.type # NoType
      [] node.kind \in {"Alias", "Lambda"} ->
            node.type # NoType /\ AllTyped(node.expr)
      [] node.kind = "And" -> node.type # NoType /\ AllTypedSeq(node.exprs)
      [] node.kind = "ArrayAccess" ->
            node.type # NoType /\ AllTypedSeq(<<node.array, node.property>>)
      [] node.kind = "JoinConstraint" -> AllTyped(node.expr)
      [] node.kind = "JoinExpr" ->
            /\ node.type # NoType
            /\ AllTypedSeq(<<node.table, node.constraint, node.next_join,
                             node.sample>>)
      [] node.kind = "SelectQuery" ->
            /\ node.type # NoType
            /\ AllTypedSeq(node.select)
            /\ AllTypedSeq(node.array_join_list)
            /\ AllTypedSeq(<<node.select_from, node.where, node.prewhere,
                             node.having, node.limit, node.offset>>)
      [] node.kind = "SelectUnionQuery" ->
            node.type # NoType /\ AllTypedSeq(node.select_queries)

\* C1 (total typing): when resolve_types returns normally, every Expr
\* reachable in the returned tree has a non-null type
C1_TotalTyping == Done => AllTyped(ret)

\* the same, for every returned tree but those that re-emit an identifier
\* naming a sub-query CTE
C1_TypedButCteValue ==
    Done /\ (query.kind = "SelectQuery" =>
                 \A i \in 1..Len(query.ctes) : query.ctes[i].v.cte_type # "subquery")
        => AllTyped(ret)

\* the CTE expansions that are open: started and not yet returned
OpenExpansions == Cardinality({i \in 1..Len(stack) : stack[i].pc = "cte"})

\* C2 as claimed (total expansion bound): a call that returns normally has
\* performed at most 50 CTE expansions in all
C2_TotalExpansionBound == Done => expansions <= CteLimit

\* C2 as the code has it (nesting bound): cte_counter is the number of CTE
\* expansions open at the moment, not the number performed, and the only
\* step taken with more than 50 of them open is the failure of visit
C2_NestedExpansionBound ==
    /\ [](cte_counter = OpenExpansions)
    /\ [][OpenExpansions > CteLimit => Failed']_vars

\* a call that returned normally after more than 50 expansions
C2_ManyExpansionsDone == Done /\ expansions > CteLimit /\ cte_counter = 0

\* an expansion returns normally: its suspended activation is resumed
ExpansionReturns == Running /\ Top.pc = "cte"

\* C3 (CTE cycle guard): every resolution comes to an end; one of a query
\* whose CTE refers to itself ends with the QueryError of visit, raised with
\* cte_counter at 51; cte_counter stays within 0..51; and every expansion
\* that returns normally leaves cte_counter as it found it
C3_CycleGuardTerminates ==
    /\ <>(status # "running")
    /\ [](query \in CteCycles /\ status # "running"
              => /\ status = "QueryError" /\ message = TooManyMessage
                 /\ cte_counter = CteLimit + 1)
    /\ [](cte_counter \in 0..(CteLimit + 1))
    /\ [][ExpansionReturns => cte_counter' = Top.save.cte_counter]_vars

\* a self-referring CTE has been stopped by the guard
C3_CycleStopped ==
    /\ query \in CteCycles
    /\ status = "QueryError" /\ message = TooManyMessage
    /\ cte_counter = CteLimit + 1

\* the saved views inside whose stored query the resolver is at work: a view
\* expansion (pc "view") whose rewritten join is resolving its table
ViewNesting ==
    Cardinality({i \in 1..(Len(stack) - 1) :
                    stack[i].pc = "view" /\ stack[i + 1].pc = "sub_table"})

ViewDepthError == status = "QueryError" /\ message = NestedViewsMessage

\* C4 (view depth counts nesting only): the view-depth QueryError is raised
\* only for a saved view met inside the stored queries of max_view_depth or
\* more enclosing saved views; views that follow one another in one FROM
\* chain do not count towards each other
C4_ViewDepthCountsNesting == ViewDepthError => ViewNesting >= max_view_depth

\* the items of a resolved SELECT list exported under a name, and the
\* visible ones among them
ItemsNamed(select, n) == {i \in 1..Len(select) : ExportName(select[i]) = n}
VisibleNamed(select, n) == {i \in ItemsNamed(select, n) : ~IsHidden(select[i])}
Last(S) == CHOOSE i \in S : \A j \in S : j <= i

ColumnExportRule(select, columns) ==
    /\ Keys(columns) = {ExportName(select[i]) : i \in 1..Len(select)} \ {""}
    /\ \A n \in Keys(columns) :
          IF VisibleNamed(select, n) # {}
          THEN \E i \in VisibleNamed(select, n) : Get(columns, n) = select[i].type
          ELSE Get(columns, n) = select[Last(ItemsNamed(select, n))].type

\* a SELECT query that visit_select_query has just returned
SelectReturned == ~Failed /\ ret.kind = "SelectQuery" /\ ret.type # NoType

\* C5 (column export rule): in the type of a SELECT query just resolved,
\* columns[n] is the type of a visible item named n if the expanded SELECT
\* list has one, in whatever order, and otherwise of the last hidden one
C5_ColumnExportRule ==
    SelectReturned => ColumnExportRule(ret.select, ret.type.columns)

\* a resolved SELECT list where a hidden item follows a visible one of the
\* same name
C5_HiddenAfterVisible ==
    /\ SelectReturned
    /\ \E i, j \in 1..Len(ret.select) :
          /\ i < j
          /\ ExportName(ret.select[i]) = ExportName(ret.select[j])
          /\ ExportName(ret.select[i]) # ""
          /\ ~IsHidden(ret.select[i]) /\ IsHidden(ret.select[j])
          /\ ret.select[i].type # ret.select[j].type

\* a step of visit_alias: its entry or its resumption
AliasStep ==
    /\ Running /\ Len(scopes) > 0
    /\ Top.fn = "alias" \/ (Top.fn = "visit" /\ Top.node.kind = "Alias")

\* the entry of the current scope's aliases under key k is left as it is
AliasEntryKept(k) ==
    /\ Has(scopes'[Len(scopes)].aliases, k)
    /\ Get(scopes'[Len(scopes)].aliases, k) = Get(TopScope.aliases, k)

\* C6 (visible alias uniqueness): no step of visit_alias replaces or removes
\* an entry that scope.aliases already holds
C6_NoAliasOverwritten ==
    [][AliasStep => \A k \in Keys(TopScope.aliases) : AliasEntryKept(k)]_vars

\* C7 (tables and aliases are disjoint): in every scope on the stack no name
\* is a key of both scope.tables and scope.aliases
C7_TablesAliasesDisjoint ==
    \A i \in 1..Len(scopes) :
        Keys(scopes[i].tables) \cap Keys(scopes[i].aliases) = {}

\* the scopes pushed since the call began, by identity, bottom first
PushedScopes == [i \in 1..(Len(scopes) - preseed) |-> scopes[preseed + i].sid]

\* the scopes owned by the open activations of the given handlers
FrameOwns(f, handlers) == f.fn \in handlers /\ f.sid # 0
Owners(handlers) == {i \in 1..Len(stack) : FrameOwns(stack[i], handlers)}

\* the pushed scopes are those of the owners, in the order of their opening
Mirrors(handlers) ==
    /\ Cardinality(Owners(handlers)) = Len(scopes) - preseed
    /\ \A i \in Owners(handlers) :
          PushedScopes[Cardinality({j \in Owners(handlers) : j <= i})]
              = stack[i].sid

\* C8 as claimed (scope stack discipline): above the pre-seeded scopes the
\* stack holds exactly one scope per open SELECT and per open lambda, in
\* opening order, and nothing else
C8_ScopesMirrorSelectsAndLambdas ==
    Mirrors({"select_query", "lambda"})

\* C8 as the code has it: the stack also holds one scope per open SELECT
\* UNION whose first branch has CTEs; every push is undone by its own
\* handler, so the stack is what it was when the handler returns
C8_ScopesMirrorOpenHandlers ==
    Mirrors({"select_query", "lambda", "select_union_query"})

\* inside a branch of a SELECT UNION that pushed the CTEs of its first branch
C8_UnionScopeOpen ==
    /\ Running
    /\ \E i \in 1..Len(stack) :
          stack[i].fn = "select_union_query" /\ stack[i].sid # 0
    /\ Len(scopes) - preseed >= 2

\* the scope on the stack with the given identity
ScopeBySid(sid) == scopes[CHOOSE i \in 1..Len(scopes) : scopes[i].sid = sid]

\* the open activations of visit_join_expr at the given positions
JoinFrames(pcs) ==
    {i \in 1..Len(stack) : stack[i].fn = "join_expr" /\ stack[i].pc \in pcs}

\* is the alias of the join of frame i a key of the tables of its scope
AliasJoined(i) ==
    Has(ScopeBySid(stack[i].aux.scope).tables, stack[i].aux.alias)

\* a source earlier in the chain of frame i holds the alias of frame i
JoinedEarlier(i) ==
    \E j \in JoinFrames({"next"}) :
        /\ j < i
        /\ stack[j].aux.scope = stack[i].aux.scope
        /\ stack[j].aux.alias = stack[i].aux.alias

\* ON is resolved with the alias joined, and no constraint is resolved twice;
\* once the constraints are through, a constraint was resolved once
OnAfterAndOnce ==
    /\ \A i \in JoinFrames({"on"}) : stack[i].aux.alias # "" => AliasJoined(i)
    /\ \A i \in JoinFrames({"using", "sub_using", "on"}) : stack[i].nres = 1
    /\ \A i \in JoinFrames({"sample"}) :
          stack[i].nres = IF stack[i].node.constraint = None THEN 0 ELSE 1

\* C9 as claimed (USING before, ON after): while the USING constraint of a
\* join is resolved its alias is no key of scope.tables; while its ON
\* constraint is resolved the alias is one; each constraint is resolved once
C9_UsingBeforeOnAfter ==
    /\ \A i \in JoinFrames({"using", "sub_using"}) : ~AliasJoined(i)
    /\ OnAfterAndOnce

\* C9 as the code has it: a named table is checked for a duplicate alias
\* before its USING constraint, a sub-query source only after it, so for a
\* sub-query source the alias may be a key already, and then it is the key
\* of a source earlier in the chain
C9_UsingBeforeOwnRegistration ==
    /\ \A i \in JoinFrames({"using"}) : ~AliasJoined(i)
    /\ \A i \in JoinFrames({"sub_using"}) : AliasJoined(i) => JoinedEarlier(i)
    /\ OnAfterAndOnce

\* the USING constraint of a sub-query source is being resolved, and its
\* alias is the alias of an earlier source
C9_UsingUnderTakenAlias ==
    /\ Running
    /\ \E i \in JoinFrames({"sub_using"}) : AliasJoined(i) /\ JoinedEarlier(i)

Placeholder(name) == FieldAliasType(name, UnknownType)

\* scope.aliases[name] is there and is not the placeholder of pass 1
Bound(aliases, name) == Has(aliases, name) /\ Get(aliases, name) # Placeholder(name)

\* the aliases of the first n resolved ARRAY JOIN expressions are bound to
\* the types of these expressions
BoundTo(aliases, resolved, n) ==
    \A j \in 1..n :
        /\ Bound(aliases, resolved[j].alias)
        /\ Get(aliases, resolved[j].alias) = resolved[j].type

\* what holds of the scope of an open SELECT at each position of
\* visit_select_query; `returned` says that the expression the SELECT waits
\* for is resolved and the SELECT is about to go on
ArrayJoinPhase(f, aliases, returned) ==
    LET list == f.node.array_join_list
        names == {list[j].alias : j \in 1..Len(list)}
        resolved == IF returned THEN Append(f.acc, ret) ELSE f.acc
    IN  CASE f.pc = "from" ->
                 /\ aliases = <<>>
                 /\ f.new.select = <<>>
          [] f.pc \in {"select", "asterisk"} ->
                 /\ f.node.select_from # None =>
                       f.new.select_from # None /\ f.new.select_from.type # NoType
                 /\ \A k \in names :
                       Has(aliases, k) /\ Get(aliases, k) = Placeholder(k)
                 /\ f.new.array_join_list = <<>>
          [] f.pc = "array_join" ->
                 /\ Len(f.new.select) > 0
                 /\ \A k \in names : Has(aliases, k) => Bound(aliases, k)
                 /\ \A j \in (Len(resolved) + 1)..Len(list) :
                       ~Has(aliases, list[j].alias)
                 /\ Len(resolved) = IF returned THEN f.i ELSE f.i - 1
                 /\ BoundTo(aliases, resolved, Len(resolved))
                 /\ f.new.where = None
          [] f.pc = "clause" ->
                 /\ Len(f.new.array_join_list) = Len(list)
                 /\ BoundTo(aliases, f.new.array_join_list, Len(list))

\* C10 (two-pass ARRAY JOIN): FROM is resolved first; each ARRAY JOIN alias
\* is a placeholder in scope.aliases all through the SELECT list; the
\* placeholders are gone before an ARRAY JOIN expression is resolved; these
\* expressions come after the SELECT list and before WHERE; and the finished
\* SELECT binds each alias to the type of its resolved expression
C10_TwoPassArrayJoin ==
    /\ \A i \in 1..Len(stack) :
          Running /\ stack[i].fn = "select_query" =>
              ArrayJoinPhase(stack[i], ScopeBySid(stack[i].sid).aliases,
                             i = Len(stack))
    /\ SelectReturned =>
          BoundTo(ret.type.aliases, ret.array_join_list, Len(ret.array_join_list))

\* a SELECT is finished whose list was resolved against the placeholder of
\* an ARRAY JOIN alias, and the alias is bound now
C10_PlaceholderRebound ==
    /\ SelectReturned
    /\ Len(ret.array_join_list) = 2
    /\ \E i \in 1..Len(ret.select) : ret.select[i].type = Placeholder("a")
    /\ Bound(ret.type.aliases, "a")

\* the sources of a scope: the named tables and the anonymous ones
SourcesOf(scope) ==
    {scope.tables[i].v : i \in 1..Len(scope.tables)}
        \cup {scope.anonymous_tables[i] : i \in 1..Len(scope.anonymous_tables)}
SourceCount(scope) == Len(scope.tables) + Len(scope.anonymous_tables)

\* visit_field is about to resolve the given kind of asterisk
BareAsterisk ==
    Entering("Field") /\ Len(scopes) > 0 /\ Top.node.chain = <<"*">>
QualifiedAsterisk ==
    /\ Entering("Field") /\ Len(scopes) > 0
    /\ Len(Top.node.chain) = 2 /\ Top.node.chain[2] = "*"
    /\ Has(TopScope.tables, Top.node.chain[1])

FailsWith(msg) == status' = "QueryError" /\ message' = msg
Yields(ty) == status' # "QueryError" /\ ret'.type = ty

\* C11 (bare asterisk needs exactly one source): with no source the bare
\* asterisk fails, with more than one it fails, with exactly one it is the
\* Asterisk of that source; a table-qualified asterisk of a registered table
\* is the Asterisk of that table, however many sources there are
C11_AsteriskNeedsOneSource ==
    [][/\ BareAsterisk /\ SourceCount(TopScope) = 0 => FailsWith(NoTablesMessage)
       /\ BareAsterisk /\ SourceCount(TopScope) > 1 => FailsWith(ManyTablesMessage)
       /\ BareAsterisk /\ SourceCount(TopScope) = 1 =>
              \E source \in SourcesOf(TopScope) : Yields(AsteriskType(source))
       /\ QualifiedAsterisk =>
              Yields(AsteriskType(Get(TopScope.tables, Top.node.chain[1])))]_vars

\* the bare asterisk was refused over two sources, one of them anonymous
C11_RefusedOverTwoSources ==
    /\ status = "QueryError" /\ message = ManyTablesMessage
    /\ Len(scopes) > 0 /\ Len(TopScope.anonymous_tables) = 1
    /\ Len(TopScope.tables) = 1

\* visit_field is about to resolve a single-segment identifier that is no
\* alias, column, table field or CTE
UnresolvableIdentifier ==
    /\ Entering("Field") /\ Len(scopes) > 0
    /\ Len(Top.node.chain) = 1
    /\ field_seed(scopes, Top.node.chain).op = "unresolved"

Diagnostic(node) ==
    [start |-> node.start, end |-> node.end,
     message |-> UnableMessage(node.chain[1])]

\* what visit_field does with the node at hand in the given dialect
InDialect(dia) == visit_field(scopes, Top.node, dia)

\* an error of visit_field other than the unresolved identifier is the same
\* error in both dialects, and the lenient dialect raises no error of its own
SameErrors ==
    /\ InDialect("clickhouse").o.op = "raise"
           /\ field_seed(scopes, Top.node.chain).op # "unresolved"
       => InDialect("hogql") = InDialect("clickhouse")
    /\ InDialect("hogql").o.op = "raise"
       => InDialect("clickhouse").o.op = "raise"

RECURSIVE LookupScopes(_)
LookupScopes(i) ==
    IF i = 0 THEN {} ELSE {i} \cup LookupScopes(scopes[i].parent)

NamesATable(chain, where) ==
    Len(chain) > 1 /\ \E i \in where : Has(scopes[i].tables, chain[1])
NamesAliasOrColumn(chain, where) ==
    \E i \in where :
        \/ Has(scopes[i].aliases, chain[1])
        \/ \E source \in SourcesOf(scopes[i]) : has_child(source, chain[1])
NamesACte(chain) == \E i \in 1..Len(scopes) : Has(scopes[i].ctes, chain[1])

\* visit_field is about to resolve an identifier
Identifier ==
    /\ Entering("Field") /\ Len(scopes) > 0
    /\ Len(Top.node.chain) > 0 /\ Top.node.chain # <<"*">>

\* the step finds nothing the identifier is bound to
FoundUnbound ==
    IF dialect = "clickhouse" THEN FailsWith(UnableMessage(Top.node.chain[1]))
    ELSE errors' # errors

\* an identifier is bound when it names a table found in `tables`, an alias
\* or a column found in `others`, or a CTE of any scope of the stack
LookupRule(tables, others) ==
    Identifier =>
        (FoundUnbound <=> ~(\/ NamesATable(Top.node.chain, tables)
                            \/ NamesAliasOrColumn(Top.node.chain, others)
                            \/ NamesACte(Top.node.chain)))

\* C13 (lookup scope): an identifier is resolved as a table, an alias or a
\* column against the top scope only, from a lambda scope on through its
\* parent chain, and as a CTE against every scope of the stack; it is
\* unresolved exactly when none of these binds it
C13_LookupScope ==
    [][LookupRule(LookupScopes(Len(scopes)), LookupScopes(Len(scopes)))]_vars

\* what the code does: the parent chain of a lambda scope is followed for
\* aliases and columns, not for tables
C13_TablesOfTopScopeOnly ==
    [][LookupRule({Len(scopes)}, LookupScopes(Len(scopes)))]_vars

\* the kind of the catalog table a resolved join reads, "" for another source
SourceKind(join) ==
    IF join.table.kind = "Field" /\ join.table.type.t \in {"Table", "LazyTable"}
    THEN get_table(join.table.type.table).kind ELSE ""

\* a resolved join with a join after it is returned
JoinReturned ==
    /\ ~Failed /\ ret.kind = "JoinExpr" /\ ret.type # NoType
    /\ ret.next_join # None

\* the join_type the inputs give a join: it goes with the constraint
WrittenJoinType(join) == JoinExpr(None, "", join.constraint, None).join_type

\* the join after the returned one is promoted exactly when `promoted` holds,
\* and is left as written otherwise
PromotionRule(promoted) ==
    JoinReturned =>
        /\ ret.join_type = WrittenJoinType(ret) \/ ret.join_type = "GLOBAL JOIN"
        /\ ret.next_join.join_type = IF promoted THEN "GLOBAL JOIN"
                                     ELSE WrittenJoinType(ret.next_join)

\* C14 (global-join promotion): next_join becomes a GLOBAL JOIN if and only
\* if the current source is the events table and the source of next_join is
\* an s3 table, each written with or without an alias; no other join_type
\* is changed
C14_GlobalJoinPromotion ==
    PromotionRule(SourceKind(ret) = "events" /\ SourceKind(ret.next_join) = "s3")

\* what the code does: the s3 table is recognised through its alias type
C14_PromotesAliasTypedS3 ==
    PromotionRule(/\ SourceKind(ret) = "events"
                  /\ SourceKind(ret.next_join) = "s3"
                  /\ ret.next_join.type.t = "TableAlias")

\* C15 (input AST is not mutated): no node of the input AST is written to
C15_InputNotMutated == mutated = {}

\* visit_array_access has resolved both parts of an access to a key of a JSON
\* field or of a Property
JsonAccessResolved ==
    /\ Running /\ Top.fn = "array_access" /\ Top.pc = "property"
    /\ IsJsonAccess(StripAlias(Top.new.array), ret)

\* the Field the access is folded into: the base chain with the key appended,
\* typed as the child of the base type
IsFoldedField(node) ==
    /\ node.kind = "Field"
    /\ node.chain = Append(StripAlias(Top.new.array).chain, ret.value)
    /\ node.type = get_child(StripAlias(Top.new.array).type, ret.value)
    /\ node.type.t = "Property"

\* C16 (JSON access folding keeps the hidden alias): the folded access is
\* returned as a hidden Alias, named by the `__`-joined chain of the
\* property, that wraps the folded Field
C16_FoldKeepsHiddenAlias ==
    [][JsonAccessResolved =>
          /\ ret'.kind = "Alias" /\ ret'.hidden
          /\ ret'.alias = JoinStr(ret'.expr.chain)
          /\ IsFoldedField(ret'.expr)]_vars

\* what the code does: the folded Field itself is returned
C16_FoldReturnsField == [][JsonAccessResolved => IsFoldedField(ret')]_vars

\* a node that already has a type is about to be visited
TypedNodeVisited == Running /\ Top.fn = "visit" /\ AlreadyTyped(Top.node)

\* the visit fails with the given error and changes nothing else
RefusedWith(error) ==
    /\ status' = error
    /\ UNCHANGED <<scopes, cte_counter, current_view_depth, errors, notices>>

\* C17 (re-resolution guard): the visit of any node that already has a type
\* fails with an ImpossibleAST error, before any change of the scope stack,
\* of the two counters and of the diagnostics
C17_TypedNodeIsImpossibleAST ==
    [][TypedNodeVisited => RefusedWith("ImpossibleASTError")]_vars

\* what the code does: Resolver.visit refuses the node with a
\* ResolutionError; a node visited through super().visit is not tested
C17_TypedNodeIsResolutionError ==
    [][TypedNodeVisited /\ ~Top.bypass => RefusedWith("ResolutionError")]_vars

====
